---------------------------- MODULE Spec2Model ----------------------------
(***************************************************************************)
(* Bare-metal driver of the memory-mapped 4x4 matrix-multiplication        *)
(* accelerator (sw/lib/matrix_accel_driver.c over sw/lib/matrix_accel_hal.h)*)
(* running against the device behind the register window.                  *)
(*                                                                         *)
(* The driver and the HAL are translated from the C source: every driver   *)
(* function is an operator over a bus record  m = [dev, log]  that threads *)
(* the device through the HAL accesses in program order and records each   *)
(* access (read, write, delay) in  log.  The device behind the window is   *)
(* hardware: its reaction to register accesses follows the register map    *)
(* and the state machine of the design document.                           *)
(***************************************************************************)
EXTENDS Integers, Sequences, FiniteSets, TLC

VARIABLES
    dev,        \* the device: registers, staging regions, status bits
    log,        \* MMIO accesses and delays of the call in progress, in order
    pc,         \* position of the caller: "idle", inside a call, or "ret"
    op,         \* the driver function being called
    args,       \* its arguments: matrix_a, matrix_b, timeout_cycles
    ret,        \* its return value (meaningful when pc = "ret")
    result,     \* the caller's output matrix of this call
    waited,     \* cycles_waited of matrix_accel_wait_done
    entry,      \* the device as it was when the call was entered
    completed,  \* the device finished a computation during this call
    phase,      \* what the previous call was, as far as the scenarios need
    outs        \* the caller's other outputs: *is_busy, *is_done, the label

vars ==
    <<dev, log, pc, op, args, ret, result, waited, entry, completed, phase, outs>>

---------------------------------------------------------------------------
(* Bounds of the model. *)

\* Largest timeout_cycles the caller passes (0 means no timeout).
MaxTimeout == 2

\* Largest cycles_waited explored when timeout_cycles = 0 (the endless wait).
MaxPolls == 3

\* How far beyond the values of matrix_accel_result_t, on either side, the
\* error codes handed to matrix_accel_error_string reach.
MaxOutside == 2

---------------------------------------------------------------------------
(* matrix_accel_hal.h: register map, bit fields, dimensions. *)

MATRIX_ACCEL_BASE == 268435456
CONTROL_REG_OFFSET == 0
STATUS_REG_OFFSET == 4
CONFIG_REG_OFFSET == 8
MATRIX_A_BASE_OFFSET == 256
MATRIX_B_BASE_OFFSET == 512
MATRIX_C_BASE_OFFSET == 768

CONTROL_REG_ADDR == MATRIX_ACCEL_BASE + CONTROL_REG_OFFSET
STATUS_REG_ADDR == MATRIX_ACCEL_BASE + STATUS_REG_OFFSET
CONFIG_REG_ADDR == MATRIX_ACCEL_BASE + CONFIG_REG_OFFSET
MATRIX_A_BASE_ADDR == MATRIX_ACCEL_BASE + MATRIX_A_BASE_OFFSET
MATRIX_B_BASE_ADDR == MATRIX_ACCEL_BASE + MATRIX_B_BASE_OFFSET
MATRIX_C_BASE_ADDR == MATRIX_ACCEL_BASE + MATRIX_C_BASE_OFFSET

CONTROL_START_BIT == 1
CONTROL_RESET_BIT == 2
STATUS_DONE_BIT == 1
STATUS_BUSY_BIT == 2

MATRIX_SIZE == 4
MATRIX_ELEMENTS == MATRIX_SIZE * MATRIX_SIZE

\* matrix_accel_driver.h: matrix_accel_result_t.
MATRIX_ACCEL_SUCCESS == 0
MATRIX_ACCEL_ERROR_TIMEOUT == -1
MATRIX_ACCEL_ERROR_BUSY == -2
MATRIX_ACCEL_ERROR_INVALID_PARAM == -3

\* value & bit # 0, for a single-bit mask.
BitSet(value, bit) == (value \div bit) % 2 = 1

\* A value as uint8_t (matrix_element_t) and as uint32_t (matrix_result_t).
\* The 32-bit reduction is written over 16-bit halves: the modulus itself is
\* beyond the integers of the model checker.
U8(x) == x % 256
U32(x) == ((x \div 65536) % 65536) * 65536 + (x % 65536)

Rows == 0 .. (MATRIX_SIZE - 1)
Slots == 0 .. (MATRIX_ELEMENTS - 1)

\* A 4x4 matrix is the tuple of its rows and a region the tuple of its 16
\* slots.  Tuples count from 1: matrix[row][col] of the C code is
\* At(matrix, row, col), and slot index of a region is region[index + 1].
At(matrix, row, col) == matrix[row + 1][col + 1]
ConstRow(v) == <<v, v, v, v>>
ConstMat(v) == <<ConstRow(v), ConstRow(v), ConstRow(v), ConstRow(v)>>

---------------------------------------------------------------------------
(* The device behind the register window. *)

\* Content of a staging or result slot that holds no defined value: staged
\* operands are logically invalid after a reset, and so is a product of them.
Invalid == -1

\* Content of an output matrix the caller has not initialised.
Fresh == -2

InvalidRegion ==
    <<Invalid, Invalid, Invalid, Invalid, Invalid, Invalid, Invalid, Invalid,
      Invalid, Invalid, Invalid, Invalid, Invalid, Invalid, Invalid, Invalid>>

\* The device after power-on: idle, nothing staged, nothing computed.
\* cfgOk: the CONFIG register is addressable (it keeps what is written).
PowerOn(cfgOk) ==
    [control |-> 0, busy |-> FALSE, done |-> FALSE, config |-> 0,
     A |-> InvalidRegion, B |-> InvalidRegion, C |-> InvalidRegion,
     cfgOk |-> cfgOk]

\* STATUS: bit 0 = DONE, bit 1 = BUSY.
StatusWord(d) ==
    (IF d.done THEN STATUS_DONE_BIT ELSE 0) + (IF d.busy THEN STATUS_BUSY_BIT ELSE 0)

InRegion(addr, base) ==
    /\ addr >= base
    /\ addr < base + 4 * MATRIX_ELEMENTS
    /\ (addr - base) % 4 = 0

SlotOf(addr, base) == (addr - base) \div 4

\* A write to CONTROL.  RESET forces BUSY = 0 and DONE = 0 and invalidates
\* the staged operands.  A rising START on a device that is not running
\* begins a computation: BUSY = 1 and DONE is cleared.
DevWriteControl(d, value) ==
    IF BitSet(value, CONTROL_RESET_BIT)
    THEN [d EXCEPT !.control = value, !.busy = FALSE, !.done = FALSE,
                   !.A = InvalidRegion, !.B = InvalidRegion]
    ELSE IF /\ BitSet(value, CONTROL_START_BIT)
            /\ ~BitSet(d.control, CONTROL_START_BIT)
            /\ ~d.busy
    THEN [d EXCEPT !.control = value, !.busy = TRUE, !.done = FALSE]
    ELSE [d EXCEPT !.control = value]

\* One 32-bit store at addr, decoded by the register map.  A and B slots use
\* the low 8 bits; STATUS and the C region are read-only.
DevWrite(d, addr, value) ==
    IF addr = CONTROL_REG_ADDR THEN DevWriteControl(d, value)
    ELSE IF addr = CONFIG_REG_ADDR
    THEN (IF d.cfgOk THEN [d EXCEPT !.config = value] ELSE d)
    ELSE IF InRegion(addr, MATRIX_A_BASE_ADDR)
    THEN [d EXCEPT !.A[SlotOf(addr, MATRIX_A_BASE_ADDR) + 1] = U8(value)]
    ELSE IF InRegion(addr, MATRIX_B_BASE_ADDR)
    THEN [d EXCEPT !.B[SlotOf(addr, MATRIX_B_BASE_ADDR) + 1] = U8(value)]
    ELSE d

\* One 32-bit load at addr.  The staging regions are write-only.
DevRead(d, addr) ==
    IF addr = CONTROL_REG_ADDR THEN d.control
    ELSE IF addr = STATUS_REG_ADDR THEN StatusWord(d)
    ELSE IF addr = CONFIG_REG_ADDR THEN d.config
    ELSE IF InRegion(addr, MATRIX_C_BASE_ADDR)
    THEN d.C[SlotOf(addr, MATRIX_C_BASE_ADDR) + 1]
    ELSE 0

\* Slot row * 4 + col of a region.
Elem(region, row, col) == region[row * MATRIX_SIZE + col + 1]

\* Entry (i, j) of the product of the staged operands, row-major slots, in
\* 32-bit unsigned arithmetic; undefined when an operand slot is invalid.
DotProduct(A, B, i, j) ==
    IF \E k \in Rows : Elem(A, i, k) = Invalid \/ Elem(B, k, j) = Invalid
    THEN Invalid
    ELSE U32(Elem(A, i, 0) * Elem(B, 0, j) + Elem(A, i, 1) * Elem(B, 1, j)
             + Elem(A, i, 2) * Elem(B, 2, j) + Elem(A, i, 3) * Elem(B, 3, j))

ProductRegion(A, B) ==
    <<DotProduct(A, B, 0, 0), DotProduct(A, B, 0, 1), DotProduct(A, B, 0, 2), DotProduct(A, B, 0, 3),
      DotProduct(A, B, 1, 0), DotProduct(A, B, 1, 1), DotProduct(A, B, 1, 2), DotProduct(A, B, 1, 3),
      DotProduct(A, B, 2, 0), DotProduct(A, B, 2, 1), DotProduct(A, B, 2, 2), DotProduct(A, B, 2, 3),
      DotProduct(A, B, 3, 0), DotProduct(A, B, 3, 1), DotProduct(A, B, 3, 2), DotProduct(A, B, 3, 3)>>

\* The running device finishes: C holds the product, DONE latches, BUSY falls.
DevFinish(d) ==
    [d EXCEPT !.busy = FALSE, !.done = TRUE, !.C = ProductRegion(d.A, d.B)]

---------------------------------------------------------------------------
(* matrix_accel_hal.h: the accessors.  A bus record m = [dev, log] is the   *)
(* device together with the accesses made so far in this call.  A read      *)
(* returns [val, m]; a write returns the bus after it.                      *)

Access(kind, addr, value) == [k |-> kind, addr |-> addr, val |-> value]

hal_read_reg32(m, addr) ==
    [val |-> DevRead(m.dev, addr),
     m   |-> [m EXCEPT !.log = Append(@, Access("R", addr, DevRead(m.dev, addr)))]]

hal_write_reg32(m, addr, value) ==
    [dev |-> DevWrite(m.dev, addr, value),
     log |-> Append(m.log, Access("W", addr, value))]

hal_write_control(m, value) == hal_write_reg32(m, CONTROL_REG_ADDR, value)

hal_read_status(m) == hal_read_reg32(m, STATUS_REG_ADDR)

hal_read_config(m) == hal_read_reg32(m, CONFIG_REG_ADDR)

hal_write_config(m, value) == hal_write_reg32(m, CONFIG_REG_ADDR, value)

\* Variant: the slot address computed without the 4-byte stride.
hal_write_matrix_a_element_bytestride(m, index, value) ==
    hal_write_reg32(m, MATRIX_A_BASE_ADDR + index, U32(U8(value)))

hal_write_matrix_a_element(m, index, value) ==
    hal_write_reg32(m, MATRIX_A_BASE_ADDR + (index * 4), U32(U8(value)))

\* Variant: the element of B written into the slot of A with the same index.
hal_write_matrix_b_element_abase(m, index, value) ==
    hal_write_reg32(m, MATRIX_A_BASE_ADDR + (index * 4), U32(U8(value)))

hal_write_matrix_b_element(m, index, value) ==
    hal_write_reg32(m, MATRIX_B_BASE_ADDR + (index * 4), U32(U8(value)))

hal_read_matrix_c_element(m, index) ==
    hal_read_reg32(m, MATRIX_C_BASE_ADDR + (index * 4))

---------------------------------------------------------------------------
(* matrix_accel_driver.c.  A driver function returns [ret, m]: its return   *)
(* value and the bus after its accesses.                                    *)

\* delay_cycles(cycles): a busy wait; it touches no register.
delay_cycles(m, cycles) == [m EXCEPT !.log = Append(@, Access("D", 0, cycles))]

CanonicalConfig ==
    U32(MATRIX_SIZE * 65536 + MATRIX_SIZE * 256 + MATRIX_SIZE)

\* Variant: init that never asserts RESET.
matrix_accel_init_noreset(m) ==
    LET m2 == delay_cycles(hal_write_control(m, 0), 10)
        config == CanonicalConfig
        m3 == hal_write_config(m2, config)
        readback == hal_read_config(m3)
    IN  IF readback.val # config
        THEN [ret |-> MATRIX_ACCEL_ERROR_INVALID_PARAM, m |-> readback.m]
        ELSE [ret |-> MATRIX_ACCEL_SUCCESS, m |-> readback.m]

\* Variant: init that reads CONFIG back and returns Success whatever it read.
matrix_accel_init_noverify(m) ==
    LET m1 == delay_cycles(hal_write_control(m, CONTROL_RESET_BIT), 10)
        m2 == delay_cycles(hal_write_control(m1, 0), 10)
        config == CanonicalConfig
        m3 == hal_write_config(m2, config)
        readback == hal_read_config(m3)
    IN  [ret |-> MATRIX_ACCEL_SUCCESS, m |-> readback.m]

matrix_accel_init(m) ==
    LET m1 == delay_cycles(hal_write_control(m, CONTROL_RESET_BIT), 10)
        m2 == delay_cycles(hal_write_control(m1, 0), 10)
        config == CanonicalConfig
        m3 == hal_write_config(m2, config)
        readback == hal_read_config(m3)
    IN  IF readback.val # config
        THEN [ret |-> MATRIX_ACCEL_ERROR_INVALID_PARAM, m |-> readback.m]
        ELSE [ret |-> MATRIX_ACCEL_SUCCESS, m |-> readback.m]

\* Variant: readiness taken from the DONE bit.
matrix_accel_is_ready_donebit(m) ==
    LET status == hal_read_status(m)
    IN  [val |-> ~BitSet(status.val, STATUS_DONE_BIT), m |-> status.m]

matrix_accel_is_ready(m) ==
    LET status == hal_read_status(m)
    IN  [val |-> ~BitSet(status.val, STATUS_BUSY_BIT), m |-> status.m]

\* Variant: completion taken from the BUSY bit.
matrix_accel_is_done_busybit(m) ==
    LET status == hal_read_status(m)
    IN  [val |-> BitSet(status.val, STATUS_BUSY_BIT), m |-> status.m]

matrix_accel_is_done(m) ==
    LET status == hal_read_status(m)
    IN  [val |-> BitSet(status.val, STATUS_DONE_BIT), m |-> status.m]

\* The nested row/col loops of the loaders over the loop state
\* st = [m, row, col, index]: the bus and the three loop variables.
\* Iteration(s) is one iteration and the rest of the loop from the values s
\* of the loop variables; the loop state is bound to s once per iteration.
RECURSIVE load_a_loop(_, _)
load_a_loop(st, matrix) ==
    LET Iteration(s) ==
        IF s.row >= MATRIX_SIZE THEN s.m
        ELSE IF s.col >= MATRIX_SIZE
        THEN load_a_loop([s EXCEPT !.row = s.row + 1, !.col = 0], matrix)
        ELSE load_a_loop(
                 [m     |-> hal_write_matrix_a_element(s.m, s.index, At(matrix, s.row, s.col)),
                  row   |-> s.row,
                  col   |-> s.col + 1,
                  index |-> s.index + 1],
                 matrix)
    IN  CHOOSE after \in {Iteration(s) : s \in {st}} : TRUE

RECURSIVE load_b_loop(_, _)
load_b_loop(st, matrix) ==
    LET Iteration(s) ==
        IF s.row >= MATRIX_SIZE THEN s.m
        ELSE IF s.col >= MATRIX_SIZE
        THEN load_b_loop([s EXCEPT !.row = s.row + 1, !.col = 0], matrix)
        ELSE load_b_loop(
                 [m     |-> hal_write_matrix_b_element(s.m, s.index, At(matrix, s.row, s.col)),
                  row   |-> s.row,
                  col   |-> s.col + 1,
                  index |-> s.index + 1],
                 matrix)
    IN  CHOOSE after \in {Iteration(s) : s \in {st}} : TRUE

\* int index = 0; row = 0; col = 0: the loop state on entry.
LoopEntry(m) == [m |-> m, row |-> 0, col |-> 0, index |-> 0]

\* Variant: load_matrix_a that starts the computation once A is staged.
matrix_accel_load_matrix_a_thenstart(m, matrix) ==
    LET ready == matrix_accel_is_ready(m)
    IN  IF ~ready.val
        THEN [ret |-> MATRIX_ACCEL_ERROR_BUSY, m |-> ready.m]
        ELSE [ret |-> MATRIX_ACCEL_SUCCESS,
              m   |-> hal_write_control(
                          hal_write_control(load_a_loop(LoopEntry(ready.m), matrix),
                                            CONTROL_START_BIT),
                          0)]

matrix_accel_load_matrix_a(m, matrix) ==
    LET ready == matrix_accel_is_ready(m)
    IN  IF ~ready.val
        THEN [ret |-> MATRIX_ACCEL_ERROR_BUSY, m |-> ready.m]
        ELSE [ret |-> MATRIX_ACCEL_SUCCESS, m |-> load_a_loop(LoopEntry(ready.m), matrix)]

\* Variant: load_matrix_b rejected while DONE is clear, as read_result is.
matrix_accel_load_matrix_b_donetest(m, matrix) ==
    LET isdone == matrix_accel_is_done(m)
    IN  IF ~isdone.val
        THEN [ret |-> MATRIX_ACCEL_ERROR_BUSY, m |-> isdone.m]
        ELSE [ret |-> MATRIX_ACCEL_SUCCESS, m |-> load_b_loop(LoopEntry(isdone.m), matrix)]

matrix_accel_load_matrix_b(m, matrix) ==
    LET ready == matrix_accel_is_ready(m)
    IN  IF ~ready.val
        THEN [ret |-> MATRIX_ACCEL_ERROR_BUSY, m |-> ready.m]
        ELSE [ret |-> MATRIX_ACCEL_SUCCESS, m |-> load_b_loop(LoopEntry(ready.m), matrix)]

\* Variant: load_matrix_b is called whatever load_matrix_a returned, and its
\* outcome is the one returned.
matrix_accel_load_matrices_noshortcircuit(m, matrix_a, matrix_b) ==
    LET ra == matrix_accel_load_matrix_a(m, matrix_a)
        rb == matrix_accel_load_matrix_b(ra.m, matrix_b)
    IN  IF rb.ret # MATRIX_ACCEL_SUCCESS THEN rb
        ELSE [ret |-> MATRIX_ACCEL_SUCCESS, m |-> rb.m]

\* Variant: the two loads in the other order, B before A.
matrix_accel_load_matrices_bfirst(m, matrix_a, matrix_b) ==
    LET rb == matrix_accel_load_matrix_b(m, matrix_b)
    IN  IF rb.ret # MATRIX_ACCEL_SUCCESS THEN rb
        ELSE LET ra == matrix_accel_load_matrix_a(rb.m, matrix_a)
             IN  IF ra.ret # MATRIX_ACCEL_SUCCESS THEN ra
                 ELSE [ret |-> MATRIX_ACCEL_SUCCESS, m |-> ra.m]

matrix_accel_load_matrices(m, matrix_a, matrix_b) ==
    LET ra == matrix_accel_load_matrix_a(m, matrix_a)
    IN  IF ra.ret # MATRIX_ACCEL_SUCCESS THEN ra
        ELSE LET rb == matrix_accel_load_matrix_b(ra.m, matrix_b)
             IN  IF rb.ret # MATRIX_ACCEL_SUCCESS THEN rb
                 ELSE [ret |-> MATRIX_ACCEL_SUCCESS, m |-> rb.m]

\* matrix_accel_start in the three parts between which the device, started by
\* the first, runs on its own: the readiness test and CONTROL := START, the
\* delay, and CONTROL := 0 with the return.

\* Variant: START asserted without the readiness check.
start_assert_unchecked(m) ==
    LET ready == matrix_accel_is_ready(m)
    IN  [ret |-> MATRIX_ACCEL_SUCCESS,
         m   |-> hal_write_control(ready.m, CONTROL_START_BIT)]

\* Variant: the RESET bit asserted in place of the START bit.
start_assert_resetpulse(m) ==
    LET ready == matrix_accel_is_ready(m)
    IN  IF ~ready.val
        THEN [ret |-> MATRIX_ACCEL_ERROR_BUSY, m |-> ready.m]
        ELSE [ret |-> MATRIX_ACCEL_SUCCESS,
              m   |-> hal_write_control(ready.m, CONTROL_RESET_BIT)]

\* The readiness test and the write that sets the START bit.  ret = Busy
\* leaves the function; ret = Success goes on to the delay.
start_assert(m) ==
    LET ready == matrix_accel_is_ready(m)
    IN  IF ~ready.val
        THEN [ret |-> MATRIX_ACCEL_ERROR_BUSY, m |-> ready.m]
        ELSE [ret |-> MATRIX_ACCEL_SUCCESS,
              m   |-> hal_write_control(ready.m, CONTROL_START_BIT)]

\* delay_cycles(2) between the two writes.
start_settle(m) == delay_cycles(m, 2)

\* Variant: the return without the write that clears the START bit.
start_clear_nowrite(m) == [ret |-> MATRIX_ACCEL_SUCCESS, m |-> m]

\* The write that clears CONTROL, and the return.
start_clear(m) == [ret |-> MATRIX_ACCEL_SUCCESS, m |-> hal_write_control(m, 0)]

\* Variant: the timeout test without the timeout_cycles > 0 guard.
wait_done_pass_unguarded(m, timeout_cycles, cycles_waited) ==
    LET isdone == matrix_accel_is_done(m)
    IN  IF isdone.val
        THEN [next |-> "return", ret |-> MATRIX_ACCEL_SUCCESS, m |-> isdone.m,
              cycles_waited |-> cycles_waited]
        ELSE IF cycles_waited >= timeout_cycles
        THEN [next |-> "return", ret |-> MATRIX_ACCEL_ERROR_TIMEOUT, m |-> isdone.m,
              cycles_waited |-> cycles_waited]
        ELSE [next |-> "loop", ret |-> MATRIX_ACCEL_SUCCESS,
              m |-> delay_cycles(isdone.m, 1),
              cycles_waited |-> U32(cycles_waited + 1)]

\* Variant: delay and increment first, then the timeout test, so that the
\* budget runs out without a further look at STATUS.
wait_done_pass_testlast(m, timeout_cycles, cycles_waited) ==
    LET isdone == matrix_accel_is_done(m)
    IN  IF isdone.val
        THEN [next |-> "return", ret |-> MATRIX_ACCEL_SUCCESS, m |-> isdone.m,
              cycles_waited |-> cycles_waited]
        ELSE IF timeout_cycles > 0 /\ U32(cycles_waited + 1) >= timeout_cycles
        THEN [next |-> "return", ret |-> MATRIX_ACCEL_ERROR_TIMEOUT,
              m |-> delay_cycles(isdone.m, 1),
              cycles_waited |-> U32(cycles_waited + 1)]
        ELSE [next |-> "loop", ret |-> MATRIX_ACCEL_SUCCESS,
              m |-> delay_cycles(isdone.m, 1),
              cycles_waited |-> U32(cycles_waited + 1)]

\* Variant: the loop without its timeout test; only DONE ends it.
wait_done_pass_notimeout(m, timeout_cycles, cycles_waited) ==
    LET isdone == matrix_accel_is_done(m)
    IN  IF isdone.val
        THEN [next |-> "return", ret |-> MATRIX_ACCEL_SUCCESS, m |-> isdone.m,
              cycles_waited |-> cycles_waited]
        ELSE [next |-> "loop", ret |-> MATRIX_ACCEL_SUCCESS,
              m |-> delay_cycles(isdone.m, 1),
              cycles_waited |-> U32(cycles_waited + 1)]

\* Variant: a wait that runs out of budget reports Success.
wait_done_pass_successontimeout(m, timeout_cycles, cycles_waited) ==
    LET isdone == matrix_accel_is_done(m)
    IN  IF isdone.val
        THEN [next |-> "return", ret |-> MATRIX_ACCEL_SUCCESS, m |-> isdone.m,
              cycles_waited |-> cycles_waited]
        ELSE IF timeout_cycles > 0 /\ cycles_waited >= timeout_cycles
        THEN [next |-> "return", ret |-> MATRIX_ACCEL_SUCCESS, m |-> isdone.m,
              cycles_waited |-> cycles_waited]
        ELSE [next |-> "loop", ret |-> MATRIX_ACCEL_SUCCESS,
              m |-> delay_cycles(isdone.m, 1),
              cycles_waited |-> U32(cycles_waited + 1)]

\* One pass of the loop of matrix_accel_wait_done: the loop condition, the
\* timeout test, the delay and the increment.  next = "return" leaves the
\* function with ret; next = "loop" goes round again.
wait_done_pass(m, timeout_cycles, cycles_waited) ==
    LET isdone == matrix_accel_is_done(m)
    IN  IF isdone.val
        THEN [next |-> "return", ret |-> MATRIX_ACCEL_SUCCESS, m |-> isdone.m,
              cycles_waited |-> cycles_waited]
        ELSE IF timeout_cycles > 0 /\ cycles_waited >= timeout_cycles
        THEN [next |-> "return", ret |-> MATRIX_ACCEL_ERROR_TIMEOUT, m |-> isdone.m,
              cycles_waited |-> cycles_waited]
        ELSE [next |-> "loop", ret |-> MATRIX_ACCEL_SUCCESS,
              m |-> delay_cycles(isdone.m, 1),
              cycles_waited |-> U32(cycles_waited + 1)]

\* Variant: the result stored with row and column exchanged.
RECURSIVE read_loop_transposed(_)
read_loop_transposed(st) ==
    IF st.row >= MATRIX_SIZE THEN st
    ELSE IF st.col >= MATRIX_SIZE
    THEN read_loop_transposed([st EXCEPT !.row = st.row + 1, !.col = 0])
    ELSE LET c == hal_read_matrix_c_element(st.m, st.index)
         IN  read_loop_transposed(
                 [m      |-> c.m,
                  row    |-> st.row,
                  col    |-> st.col + 1,
                  index  |-> st.index + 1,
                  result |-> [st.result EXCEPT ![st.col + 1][st.row + 1] = c.val]])

\* The nested row/col loops of matrix_accel_read_result over the loop state
\* st = [m, row, col, index, result].
RECURSIVE read_loop(_)
read_loop(st) ==
    LET Iteration(s) ==
        IF s.row >= MATRIX_SIZE THEN s
        ELSE IF s.col >= MATRIX_SIZE
        THEN read_loop([s EXCEPT !.row = s.row + 1, !.col = 0])
        ELSE LET c == hal_read_matrix_c_element(s.m, s.index)
             IN  read_loop(
                     [m      |-> c.m,
                      row    |-> s.row,
                      col    |-> s.col + 1,
                      index  |-> s.index + 1,
                      result |-> [s.result EXCEPT ![s.row + 1][s.col + 1] = c.val]])
    IN  CHOOSE after \in {Iteration(s) : s \in {st}} : TRUE

\* Variant: the C slots copied before the DONE test decides the outcome.
matrix_accel_read_result_copyfirst(m, out) ==
    LET isdone == matrix_accel_is_done(m)
        st == read_loop([m |-> isdone.m, row |-> 0, col |-> 0, index |-> 0,
                         result |-> out])
    IN  IF ~isdone.val
        THEN [ret |-> MATRIX_ACCEL_ERROR_BUSY, m |-> st.m, result |-> st.result]
        ELSE [ret |-> MATRIX_ACCEL_SUCCESS, m |-> st.m, result |-> st.result]

\* Returns [ret, m, result]: result is the caller's output matrix afterwards.
matrix_accel_read_result(m, out) ==
    LET isdone == matrix_accel_is_done(m)
    IN  IF ~isdone.val
        THEN [ret |-> MATRIX_ACCEL_ERROR_BUSY, m |-> isdone.m, result |-> out]
        ELSE LET st == read_loop([m |-> isdone.m, row |-> 0, col |-> 0, index |-> 0,
                                  result |-> out])
             IN  [ret |-> MATRIX_ACCEL_SUCCESS, m |-> st.m, result |-> st.result]

\* Variant: reset that only clears CONTROL, RESET never asserted.
matrix_accel_reset_noassert(m) ==
    LET m2 == delay_cycles(hal_write_control(delay_cycles(m, 10), 0), 10)
    IN  [ret |-> MATRIX_ACCEL_SUCCESS, m |-> m2]

\* Variant: reset that asserts the START bit in place of the RESET bit.
matrix_accel_reset_startbit(m) ==
    LET m1 == delay_cycles(hal_write_control(m, CONTROL_START_BIT), 10)
        m2 == delay_cycles(hal_write_control(m1, 0), 10)
    IN  [ret |-> MATRIX_ACCEL_SUCCESS, m |-> m2]

matrix_accel_reset(m) ==
    LET m1 == delay_cycles(hal_write_control(m, CONTROL_RESET_BIT), 10)
        m2 == delay_cycles(hal_write_control(m1, 0), 10)
    IN  [ret |-> MATRIX_ACCEL_SUCCESS, m |-> m2]

\* A pointer argument is NULL or points to a bool of the caller.
NULL == "NULL"
Ptr == "ptr"

\* A C bool as stored through a pointer.
CBool(b) == IF b THEN 1 ELSE 0

\* Variant: InvalidParam only when both out-parameters are missing; a store
\* through a missing pointer is left out.
matrix_accel_get_status_bothnull(m, is_busy, is_done, out) ==
    IF is_busy = NULL /\ is_done = NULL
    THEN [ret |-> MATRIX_ACCEL_ERROR_INVALID_PARAM, m |-> m, out |-> out]
    ELSE LET status == hal_read_status(m)
         IN  [ret |-> MATRIX_ACCEL_SUCCESS,
              m   |-> status.m,
              out |-> [is_busy |-> IF is_busy = NULL THEN out.is_busy
                                   ELSE CBool(BitSet(status.val, STATUS_BUSY_BIT)),
                       is_done |-> IF is_done = NULL THEN out.is_done
                                   ELSE CBool(BitSet(status.val, STATUS_DONE_BIT))]]

\* Returns [ret, m, out]: out = [is_busy, is_done] are the two bools of the
\* caller afterwards.
matrix_accel_get_status(m, is_busy, is_done, out) ==
    IF is_busy = NULL \/ is_done = NULL
    THEN [ret |-> MATRIX_ACCEL_ERROR_INVALID_PARAM, m |-> m, out |-> out]
    ELSE LET status == hal_read_status(m)
         IN  [ret |-> MATRIX_ACCEL_SUCCESS,
              m   |-> status.m,
              out |-> [is_busy |-> CBool(BitSet(status.val, STATUS_BUSY_BIT)),
                       is_done |-> CBool(BitSet(status.val, STATUS_DONE_BIT))]]

\* Variant: the labels of Timeout and Busy exchanged, no default label.
matrix_accel_error_string_swapped(error) ==
    IF error = MATRIX_ACCEL_SUCCESS THEN "Success"
    ELSE IF error = MATRIX_ACCEL_ERROR_TIMEOUT THEN "Accelerator busy"
    ELSE IF error = MATRIX_ACCEL_ERROR_BUSY THEN "Operation timeout"
    ELSE IF error = MATRIX_ACCEL_ERROR_INVALID_PARAM THEN "Invalid parameter"
    ELSE ""

matrix_accel_error_string(error) ==
    IF error = MATRIX_ACCEL_SUCCESS THEN "Success"
    ELSE IF error = MATRIX_ACCEL_ERROR_TIMEOUT THEN "Operation timeout"
    ELSE IF error = MATRIX_ACCEL_ERROR_BUSY THEN "Accelerator busy"
    ELSE IF error = MATRIX_ACCEL_ERROR_INVALID_PARAM THEN "Invalid parameter"
    ELSE "Unknown error"

---------------------------------------------------------------------------
(* Inputs of the caller. *)

\* The fixtures of sw/src/matrix_test.c.
IdentityA == <<<<1, 2, 3, 4>>, <<5, 6, 7, 8>>, <<9, 10, 11, 12>>, <<13, 14, 15, 16>>>>
IdentityB == <<<<1, 0, 0, 0>>, <<0, 1, 0, 0>>, <<0, 0, 1, 0>>, <<0, 0, 0, 1>>>>
BandA == <<<<1, 2, 0, 0>>, <<0, 1, 2, 0>>, <<0, 0, 1, 2>>, <<0, 0, 0, 1>>>>
BandB == <<<<2, 0, 0, 0>>, <<1, 2, 0, 0>>, <<0, 1, 2, 0>>, <<0, 0, 1, 2>>>>
BandC == <<<<4, 4, 0, 0>>, <<1, 4, 4, 0>>, <<0, 1, 4, 4>>, <<0, 0, 1, 2>>>>
AllOnes == ConstMat(1)
\* The largest element everywhere: the widest sums the device can produce.
AllMax == ConstMat(255)

\* Operand pairs of the multiplication runs: the three fixtures and the
\* all-255 pair.
TestPairs ==
    {<<IdentityA, IdentityB>>, <<BandA, BandB>>, <<AllOnes, AllOnes>>, <<AllMax, AllMax>>}

\* Operands of the protocol runs: two matrices, neither symmetric.
Mats == {IdentityA, BandB}
MatPairs == {<<IdentityA, BandB>>, <<BandB, IdentityA>>}

Timeouts == 0 .. MaxTimeout

NoMat == ConstMat(Invalid)
FreshMat == ConstMat(Fresh)
NoArgs ==
    [a |-> NoMat, b |-> NoMat, timeout |-> 0,
     is_busy |-> NULL, is_done |-> NULL, error |-> MATRIX_ACCEL_SUCCESS]

\* The error codes the caller may hand to matrix_accel_error_string: the
\* values of matrix_accel_result_t and MaxOutside values on either side.
ErrorCodes == (MATRIX_ACCEL_ERROR_INVALID_PARAM - MaxOutside) .. MaxOutside

Pointers == {NULL, Ptr}

\* The caller's two bools before a call has stored into them, and no label.
NoOuts == [is_busy |-> Fresh, is_done |-> Fresh, label |-> ""]
NoEntry == PowerOn(FALSE)

Bus == [dev |-> dev, log |-> log]

---------------------------------------------------------------------------
(* The caller and the device as a state machine. *)

Init ==
    /\ dev \in {PowerOn(TRUE), PowerOn(FALSE)}
    /\ log = <<>>
    /\ pc = "idle"
    /\ op = "none"
    /\ args = NoArgs
    /\ ret = MATRIX_ACCEL_SUCCESS
    /\ result = FreshMat
    /\ waited = 0
    /\ entry = NoEntry
    /\ completed = FALSE
    /\ phase = "none"
    /\ outs = NoOuts

\* The caller enters driver function o: a new access log, a new output
\* matrix, the device remembered as it is now.
EnterWith(o, a) ==
    /\ pc = "idle"
    /\ op' = o
    /\ args' = a
    /\ entry' = dev
    /\ completed' = FALSE
    /\ waited' = 0
    /\ UNCHANGED phase

\* The same for the functions that take matrices and a timeout and store
\* nothing but the output matrix.
Enter(o, a, b, t) ==
    /\ EnterWith(o, [NoArgs EXCEPT !.a = a, !.b = b, !.timeout = t])
    /\ outs' = NoOuts

\* A driver function that runs to its return in one step leaves with r.
Leave(r) ==
    /\ dev' = r.m.dev
    /\ log' = r.m.log
    /\ ret' = r.ret
    /\ pc' = "ret"

EmptyBus == [dev |-> dev, log |-> <<>>]

CallInit ==
    /\ Enter("init", NoMat, NoMat, 0)
    /\ Leave(matrix_accel_init(EmptyBus))
    /\ result' = FreshMat

CallReset ==
    /\ Enter("reset", NoMat, NoMat, 0)
    /\ Leave(matrix_accel_reset(EmptyBus))
    /\ result' = FreshMat

CallLoadMatrixA(inputs) ==
    \E a \in inputs :
        /\ Enter("load_matrix_a", a, NoMat, 0)
        /\ Leave(matrix_accel_load_matrix_a(EmptyBus, a))
        /\ result' = FreshMat

CallLoadMatrixB(inputs) ==
    \E b \in inputs :
        /\ Enter("load_matrix_b", NoMat, b, 0)
        /\ Leave(matrix_accel_load_matrix_b(EmptyBus, b))
        /\ result' = FreshMat

CallLoadMatrices(pairs) ==
    \E p \in pairs :
        /\ Enter("load_matrices", p[1], p[2], 0)
        /\ Leave(matrix_accel_load_matrices(EmptyBus, p[1], p[2]))
        /\ result' = FreshMat

\* matrix_accel_start(): the caller enters; the readiness test either
\* rejects the call or asserts START.
CallStart ==
    /\ Enter("start", NoMat, NoMat, 0)
    /\ LET r == start_assert(EmptyBus)
       IN  /\ dev' = r.m.dev
           /\ log' = r.m.log
           /\ IF r.ret # MATRIX_ACCEL_SUCCESS
              THEN pc' = "ret" /\ ret' = r.ret
              ELSE pc' = "s_settle" /\ UNCHANGED ret
    /\ result' = FreshMat

CallReadResult ==
    LET r == matrix_accel_read_result(EmptyBus, FreshMat)
    IN  /\ Enter("read_result", NoMat, NoMat, 0)
        /\ Leave(r)
        /\ result' = r.result

CallGetStatus ==
    \E is_busy \in Pointers, is_done \in Pointers :
        LET r == matrix_accel_get_status(EmptyBus, is_busy, is_done,
                                         [is_busy |-> Fresh, is_done |-> Fresh])
        IN  /\ EnterWith("get_status",
                          [NoArgs EXCEPT !.is_busy = is_busy, !.is_done = is_done])
            /\ Leave(r)
            /\ outs' = [NoOuts EXCEPT !.is_busy = r.out.is_busy,
                                      !.is_done = r.out.is_done]
            /\ result' = FreshMat

\* matrix_accel_error_string(error): no register is touched.
CallErrorString ==
    \E error \in ErrorCodes :
        /\ EnterWith("error_string", [NoArgs EXCEPT !.error = error])
        /\ outs' = [NoOuts EXCEPT !.label = matrix_accel_error_string(error)]
        /\ pc' = "ret"
        /\ log' = <<>>
        /\ result' = FreshMat
        /\ UNCHANGED <<dev, ret>>

\* matrix_accel_wait_done(t): the caller enters the polling loop.
CallWaitDone(timeouts) ==
    \E t \in timeouts :
        /\ Enter("wait_done", NoMat, NoMat, t)
        /\ pc' = "wait"
        /\ log' = <<>>
        /\ result' = FreshMat
        /\ UNCHANGED <<dev, ret>>

\* matrix_accel_multiply(a, b, result, t): the caller enters the composite.
CallMultiply(pairs, timeouts) ==
    \E p \in pairs, t \in timeouts :
        /\ Enter("multiply", p[1], p[2], t)
        /\ pc' = "m_load"
        /\ log' = <<>>
        /\ result' = FreshMat
        /\ UNCHANGED <<dev, ret>>

\* Variant: multiply goes on to matrix_accel_start whatever
\* matrix_accel_load_matrices returned.
MulLoad_noshortcircuit ==
    /\ pc = "m_load"
    /\ LET r == matrix_accel_load_matrices(Bus, args.a, args.b)
       IN  /\ dev' = r.m.dev
           /\ log' = r.m.log
           /\ pc' = "m_start"
           /\ UNCHANGED ret
    /\ UNCHANGED <<op, args, result, waited, entry, completed, phase, outs>>

\* multiply, first step: matrix_accel_load_matrices.
MulLoad ==
    /\ pc = "m_load"
    /\ LET r == matrix_accel_load_matrices(Bus, args.a, args.b)
       IN  /\ dev' = r.m.dev
           /\ log' = r.m.log
           /\ IF r.ret # MATRIX_ACCEL_SUCCESS
              THEN pc' = "ret" /\ ret' = r.ret
              ELSE pc' = "m_start" /\ UNCHANGED ret
    /\ UNCHANGED <<op, args, result, waited, entry, completed, phase, outs>>

\* Variant: multiply goes from the loads straight to the wait, START never
\* pulsed.
MulStart_skipped ==
    /\ pc = "m_start"
    /\ pc' = "m_wait"
    /\ UNCHANGED <<dev, log, ret>>
    /\ UNCHANGED <<op, args, result, waited, entry, completed, phase, outs>>

\* multiply, second step: matrix_accel_start, up to the START write.
MulStart ==
    /\ pc = "m_start"
    /\ LET r == start_assert(Bus)
       IN  /\ dev' = r.m.dev
           /\ log' = r.m.log
           /\ IF r.ret # MATRIX_ACCEL_SUCCESS
              THEN pc' = "ret" /\ ret' = r.ret
              ELSE pc' = "s_settle" /\ UNCHANGED ret
    /\ UNCHANGED <<op, args, result, waited, entry, completed, phase, outs>>

\* matrix_accel_start, called by the caller or by multiply: the delay that
\* follows the START write.  The device is running meanwhile.
StartSettle ==
    /\ pc = "s_settle"
    /\ LET m == start_settle(Bus)
       IN  /\ dev' = m.dev
           /\ log' = m.log
    /\ pc' = "s_clear"
    /\ UNCHANGED <<op, args, ret, result, waited, entry, completed, phase, outs>>

\* matrix_accel_start: the write that clears CONTROL, and the return, to the
\* caller or into multiply, which goes on to the wait.
StartClear ==
    /\ pc = "s_clear"
    /\ LET r == start_clear(Bus)
       IN  /\ dev' = r.m.dev
           /\ log' = r.m.log
           /\ IF op = "multiply" /\ r.ret = MATRIX_ACCEL_SUCCESS
              THEN pc' = "m_wait" /\ UNCHANGED ret
              ELSE pc' = "ret" /\ ret' = r.ret
    /\ UNCHANGED <<op, args, result, waited, entry, completed, phase, outs>>

\* Variant: a wait inside multiply that runs out of budget resets the
\* device before multiply returns Timeout.
WaitPass_resetontimeout ==
    /\ pc \in {"wait", "m_wait"}
    /\ LET s == wait_done_pass(Bus, args.timeout, waited)
           t == IF pc = "m_wait" /\ s.next = "return"
                   /\ s.ret = MATRIX_ACCEL_ERROR_TIMEOUT
                THEN matrix_accel_reset(s.m).m
                ELSE s.m
       IN  /\ s.next = "loop" => waited < MaxPolls
           /\ dev' = t.dev
           /\ log' = t.log
           /\ waited' = s.cycles_waited
           /\ IF s.next = "loop" THEN UNCHANGED <<pc, ret>>
              ELSE IF pc = "m_wait" /\ s.ret = MATRIX_ACCEL_SUCCESS
              THEN pc' = "m_read" /\ UNCHANGED ret
              ELSE pc' = "ret" /\ ret' = s.ret
    /\ UNCHANGED <<op, args, result, entry, completed, phase, outs>>

\* One pass of the polling loop, of matrix_accel_wait_done called by the
\* caller (pc = "wait") or by multiply (pc = "m_wait").  An endless wait
\* (timeout_cycles = 0) is followed for MaxPolls passes.
WaitPass ==
    /\ pc \in {"wait", "m_wait"}
    /\ LET s == wait_done_pass(Bus, args.timeout, waited)
       IN  /\ s.next = "loop" => waited < MaxPolls
           /\ dev' = s.m.dev
           /\ log' = s.m.log
           /\ waited' = s.cycles_waited
           /\ IF s.next = "loop" THEN UNCHANGED <<pc, ret>>
              ELSE IF pc = "m_wait" /\ s.ret = MATRIX_ACCEL_SUCCESS
              THEN pc' = "m_read" /\ UNCHANGED ret
              ELSE pc' = "ret" /\ ret' = s.ret
    /\ UNCHANGED <<op, args, result, entry, completed, phase, outs>>

\* multiply, last step: matrix_accel_read_result.
MulRead ==
    /\ pc = "m_read"
    /\ LET r == matrix_accel_read_result(Bus, result)
       IN  /\ dev' = r.m.dev
           /\ log' = r.m.log
           /\ result' = r.result
           /\ ret' = r.ret
           /\ pc' = "ret"
    /\ UNCHANGED <<op, args, waited, entry, completed, phase, outs>>

\* What the call that returns leaves for the scenarios that follow it.
NextPhase ==
    IF op = "start" /\ ret = MATRIX_ACCEL_SUCCESS THEN "started"
    ELSE IF op = "multiply" /\ ret = MATRIX_ACCEL_ERROR_TIMEOUT THEN "timedout"
    ELSE IF op = "reset" /\ phase = "timedout" THEN "recovered"
    ELSE "none"

\* The caller takes the return value and is free to call again.
Return ==
    /\ pc = "ret"
    /\ pc' = "idle"
    /\ phase' = NextPhase
    /\ op' = "none"
    /\ args' = NoArgs
    /\ ret' = MATRIX_ACCEL_SUCCESS
    /\ result' = FreshMat
    /\ outs' = NoOuts
    /\ waited' = 0
    /\ log' = <<>>
    /\ entry' = NoEntry
    /\ completed' = FALSE
    /\ UNCHANGED dev

\* The running device finishes its computation, at any moment between two
\* steps of the caller.
DeviceComplete ==
    /\ dev.busy
    /\ pc # "ret"
    /\ dev' = DevFinish(dev)
    /\ completed' = (pc # "idle")
    /\ UNCHANGED <<log, pc, op, args, ret, result, waited, entry, phase, outs>>

Next ==
    \/ CallInit
    \/ CallReset
    \/ CallLoadMatrixA(Mats)
    \/ CallLoadMatrixB(Mats)
    \/ CallLoadMatrices(MatPairs)
    \/ CallStart
    \/ CallReadResult
    \/ CallGetStatus
    \/ CallErrorString
    \/ CallWaitDone(Timeouts)
    \/ CallMultiply(MatPairs, Timeouts)
    \/ MulLoad
    \/ MulStart
    \/ StartSettle
    \/ StartClear
    \/ WaitPass
    \/ MulRead
    \/ Return
    \/ DeviceComplete

Spec == Init /\ [][Next]_vars

\* The multiplication runs: multiply on the fixtures, reset, and the device.
InitMul ==
    /\ Init
    /\ dev = PowerOn(TRUE)

NextMul ==
    \/ CallMultiply(TestPairs, Timeouts)
    \/ CallReset
    \/ MulLoad
    \/ MulStart
    \/ StartSettle
    \/ StartClear
    \/ WaitPass
    \/ MulRead
    \/ Return
    \/ DeviceComplete

SpecMul == InitMul /\ [][NextMul]_vars

\* The processor keeps executing the call in progress: each step of the
\* driver's code that is enabled is eventually taken.  Nothing is assumed of
\* the device (it may never finish) nor of the caller (it may never call).
DriverRuns ==
    /\ WF_vars(MulLoad)
    /\ WF_vars(MulStart)
    /\ WF_vars(StartSettle)
    /\ WF_vars(StartClear)
    /\ WF_vars(WaitPass)
    /\ WF_vars(MulRead)

\* The waiting runs: the calls that poll and the straight calls around them,
\* on one pair of operands, with the device free to finish or not.
LivePairs == {<<IdentityA, BandB>>}

InitLive ==
    /\ Init
    /\ dev = PowerOn(TRUE)

NextLive ==
    \/ CallReset
    \/ CallLoadMatrixA({IdentityA})
    \/ CallLoadMatrixB({BandB})
    \/ CallStart
    \/ CallReadResult
    \/ CallGetStatus
    \/ CallWaitDone(Timeouts)
    \/ CallMultiply(LivePairs, Timeouts)
    \/ MulLoad
    \/ MulStart
    \/ StartSettle
    \/ StartClear
    \/ WaitPass
    \/ MulRead
    \/ Return
    \/ DeviceComplete

SpecLive == InitLive /\ [][NextLive]_vars /\ DriverRuns

---------------------------------------------------------------------------
(* Vocabulary of the properties. *)

\* Driver function o has just returned to the caller.
Returned(o) == pc = "ret" /\ op = o

IsWrite(e) == e.k = "W"
IsDelay(e) == e.k = "D"
IsStatusRead(e) == e.k = "R" /\ e.addr = STATUS_REG_ADDR
IsControlWrite(e) == e.k = "W" /\ e.addr = CONTROL_REG_ADDR
IsStartWrite(e) == IsControlWrite(e) /\ BitSet(e.val, CONTROL_START_BIT)

Count(l, Test(_)) == Cardinality({i \in 1 .. Len(l) : Test(l[i])})

\* The device state as the two status predicates of the driver see it.
ReadyNotDone ==
    /\ matrix_accel_is_ready(Bus).val
    /\ ~matrix_accel_is_done(Bus).val
    /\ ~dev.busy
    /\ ~dev.done

\* Entry (i, j) of the product of two caller matrices, 32-bit unsigned.
Expected(a, b, i, j) ==
    U32(At(a, i, 0) * At(b, 0, j) + At(a, i, 1) * At(b, 1, j)
        + At(a, i, 2) * At(b, 2, j) + At(a, i, 3) * At(b, 3, j))

---------------------------------------------------------------------------
(* The properties. *)

\* C1: when matrix_accel_multiply(a, b, result, timeout) returns Success,
\* result[i][j] is the sum over k of a[i][k] * b[k][j] in 32-bit unsigned
\* arithmetic for every i, j; in particular identity B gives result = a,
\* all-ones gives all 4, and all-255 gives 260100 everywhere, not wrapped.
C1_MultiplyIsProduct ==
    (Returned("multiply") /\ ret = MATRIX_ACCEL_SUCCESS) =>
        /\ \A i \in Rows, j \in Rows :
               At(result, i, j) = Expected(args.a, args.b, i, j)
        /\ args.b = IdentityB => result = args.a
        /\ (args.a = BandA /\ args.b = BandB) => result = BandC
        /\ (args.a = AllOnes /\ args.b = AllOnes) => result = ConstMat(4)
        /\ (args.a = AllMax /\ args.b = AllMax) => result = ConstMat(260100)

\* C1 witness: the all-255 product returned by a multiply that found the
\* result of an earlier computation still latched in the device.
C1_Witness ==
    /\ Returned("multiply")
    /\ ret = MATRIX_ACCEL_SUCCESS
    /\ args.a = AllMax
    /\ entry.done
    /\ At(result, 3, 3) = 260100

\* C2: a multiply with a timeout on a ready device that never asserts DONE
\* returns Timeout; after that Timeout and a reset, the next multiply finds
\* the device ready and returns Success when the device completes within
\* the wait, never Busy.
C2_TimeoutRecoverable ==
    Returned("multiply") =>
        /\ (~entry.busy /\ args.timeout > 0 /\ ~completed) =>
               ret = MATRIX_ACCEL_ERROR_TIMEOUT
        /\ phase = "recovered" =>
               /\ ~entry.busy
               /\ ret \in {MATRIX_ACCEL_SUCCESS, MATRIX_ACCEL_ERROR_TIMEOUT}
               /\ completed => ret = MATRIX_ACCEL_SUCCESS

\* C2 witness: the multiply after Timeout and reset has returned Success
\* with the product.
C2_Witness ==
    /\ Returned("multiply")
    /\ phase = "recovered"
    /\ args.timeout = MaxTimeout
    /\ ret = MATRIX_ACCEL_SUCCESS
    /\ At(result, 0, 0) = Expected(args.a, args.b, 0, 0)

\* C3: after matrix_accel_init returns Success, is_ready() is true and
\* is_done() is false (BUSY = 0 and DONE = 0), whatever the device was before.
C3_InitLeavesReady ==
    (Returned("init") /\ ret = MATRIX_ACCEL_SUCCESS) => ReadyNotDone

\* C3 witness: init has returned Success on a device that was running.
C3_Witness ==
    /\ Returned("init")
    /\ ret = MATRIX_ACCEL_SUCCESS
    /\ entry.busy

\* C4: matrix_accel_reset returns Success from every device state, and
\* after it is_ready() is true and is_done() is false.
C4_ResetLeavesReady ==
    Returned("reset") => (ret = MATRIX_ACCEL_SUCCESS /\ ReadyNotDone)

\* C4 witness: reset has returned on a device that was running.
C4_Witness ==
    /\ Returned("reset")
    /\ entry.busy
    /\ entry.A # InvalidRegion

\* C5: load_matrix_a, load_matrix_b and start, called while BUSY = 1, return
\* Busy and make no MMIO write; the device is as it was.
C5_BusyRejectsWithoutWrite ==
    (/\ pc = "ret"
     /\ op \in {"load_matrix_a", "load_matrix_b", "start"}
     /\ entry.busy) =>
        /\ ret = MATRIX_ACCEL_ERROR_BUSY
        /\ Count(log, IsWrite) = 0
        /\ dev = entry

\* C5 witness: load_matrix_a has returned from a call made while BUSY = 1.
C5_Witness ==
    /\ Returned("load_matrix_a")
    /\ entry.busy
    /\ Len(log) = 1

\* C6 as stated: a second start() after a start() that returned Success
\* returns Busy and does not write the START bit.
C6_SecondStartAlwaysBusy ==
    (Returned("start") /\ phase = "started") =>
        /\ ret = MATRIX_ACCEL_ERROR_BUSY
        /\ Count(log, IsStartWrite) = 0

\* C6 amended: a second start() after a start() that returned Success
\* returns Busy without any CONTROL write when the device is still running
\* at its STATUS read; when the device has finished in between (DONE = 1,
\* BUSY = 0) it returns Success and pulses START once more.
C6_SecondStartBusyWhileRunning ==
    (Returned("start") /\ phase = "started") =>
        IF entry.busy
        THEN /\ ret = MATRIX_ACCEL_ERROR_BUSY
             /\ Count(log, IsControlWrite) = 0
             /\ dev = entry
        ELSE /\ entry.done
             /\ ret = MATRIX_ACCEL_SUCCESS
             /\ Count(log, IsStartWrite) = 1

\* C6 witness: the second start() has been rejected on the running device.
C6_Witness ==
    /\ Returned("start")
    /\ phase = "started"
    /\ entry.busy
    /\ ret = MATRIX_ACCEL_ERROR_BUSY

\* C7: matrix_accel_read_result called while BUSY = 1 returns Busy and
\* leaves the device as it was, for every STATUS value with BUSY = 1.
C7_ReadResultBusyWhileRunning ==
    (Returned("read_result") /\ entry.busy) =>
        /\ ret = MATRIX_ACCEL_ERROR_BUSY
        /\ dev = entry
        /\ Count(log, IsWrite) = 0

\* C7 witness: read_result has returned from a call made while BUSY = 1,
\* with an earlier product still in the C region.
C7_Witness ==
    /\ Returned("read_result")
    /\ entry.busy
    /\ entry.C # InvalidRegion

\* C8: matrix_accel_read_result reads STATUS once; it returns Success iff
\* that read has DONE = 1; with DONE = 0 it returns Busy, reads no C slot and
\* leaves the output matrix alone; with DONE = 1 it reads the 16 C slots in
\* ascending order and stores slot row * 4 + col into result[row][col].
C8_ReadResultContract ==
    Returned("read_result") =>
        /\ Len(log) >= 1
        /\ IsStatusRead(log[1])
        /\ Count(log, IsStatusRead) = 1
        /\ (ret = MATRIX_ACCEL_SUCCESS) <=> BitSet(log[1].val, STATUS_DONE_BIT)
        /\ ret # MATRIX_ACCEL_SUCCESS =>
               /\ ret = MATRIX_ACCEL_ERROR_BUSY
               /\ Len(log) = 1
               /\ result = FreshMat
        /\ ret = MATRIX_ACCEL_SUCCESS =>
               /\ Len(log) = 1 + MATRIX_ELEMENTS
               /\ \A i \in Slots :
                      log[i + 2] = Access("R", MATRIX_C_BASE_ADDR + 4 * i, entry.C[i + 1])
               /\ \A r \in Rows, c \in Rows :
                      At(result, r, c) = entry.C[r * MATRIX_SIZE + c + 1]

\* C8 witness: read_result has returned a computed product.
C8_Witness ==
    /\ Returned("read_result")
    /\ ret = MATRIX_ACCEL_SUCCESS
    /\ At(result, 0, 1) # Invalid
    /\ At(result, 0, 1) # At(result, 1, 0)

\* C9: matrix_accel_wait_done(0) never returns Timeout: it returns only
\* Success, and only after a STATUS read that has DONE = 1.
C9_NoTimeoutWithoutBudget ==
    /\ (Returned("wait_done") /\ args.timeout = 0) =>
           /\ ret = MATRIX_ACCEL_SUCCESS
           /\ Len(log) >= 1
           /\ IsStatusRead(log[Len(log)])
           /\ BitSet(log[Len(log)].val, STATUS_DONE_BIT)
    /\ (Returned("multiply") /\ args.timeout = 0) =>
           ret # MATRIX_ACCEL_ERROR_TIMEOUT

\* C9 witness: wait_done(0) has returned after waiting longer than any
\* timeout the caller passes.
C9_Witness ==
    /\ Returned("wait_done")
    /\ args.timeout = 0
    /\ waited > MaxTimeout

\* C10 as stated: with timeout T > 0, Timeout is returned after exactly T
\* STATUS reads and T delay quanta, and whenever DONE is clear on the first
\* T STATUS reads.
C10_TimeoutAfterTReads ==
    (Returned("wait_done") /\ args.timeout > 0) =>
        /\ ret = MATRIX_ACCEL_ERROR_TIMEOUT =>
               /\ Count(log, IsStatusRead) = args.timeout
               /\ Count(log, IsDelay) = args.timeout
        /\ (/\ Count(log, IsStatusRead) >= args.timeout
            /\ \A i \in 1 .. args.timeout :
                   ~BitSet(log[2 * i - 1].val, STATUS_DONE_BIT)) =>
               ret = MATRIX_ACCEL_ERROR_TIMEOUT

\* C10 amended: with timeout T > 0 the accesses of wait_done alternate
\* STATUS read, delay quantum, STATUS read, ...; every read but the last
\* found DONE clear and was followed by one quantum and one increment;
\* Timeout is returned exactly when T + 1 STATUS reads found DONE clear,
\* after T quanta; when DONE asserts during the last quantum the read after
\* it sees DONE and the call returns Success.
C10_TimeoutAfterTPlusOneReads ==
    (Returned("wait_done") /\ args.timeout > 0) =>
        /\ waited <= args.timeout
        /\ Len(log) = 2 * waited + 1
        /\ Count(log, IsStatusRead) = waited + 1
        /\ Count(log, IsDelay) = waited
        /\ \A i \in 1 .. Len(log) :
               IF i % 2 = 1
               THEN IsStatusRead(log[i])
               ELSE log[i] = Access("D", 0, 1)
        /\ \A i \in 1 .. waited : ~BitSet(log[2 * i - 1].val, STATUS_DONE_BIT)
        /\ ret \in {MATRIX_ACCEL_SUCCESS, MATRIX_ACCEL_ERROR_TIMEOUT}
        /\ (ret = MATRIX_ACCEL_SUCCESS) <=> BitSet(log[Len(log)].val, STATUS_DONE_BIT)
        /\ ret = MATRIX_ACCEL_ERROR_TIMEOUT => waited = args.timeout

\* C10 witness: DONE asserted during the last quantum of the budget, and
\* the read after it returned Success.
C10_Witness ==
    /\ Returned("wait_done")
    /\ args.timeout = MaxTimeout
    /\ waited = args.timeout
    /\ ret = MATRIX_ACCEL_SUCCESS

\* The accesses of one call, as segments of the log starting at from.
IsBusySet(e) == IsStatusRead(e) /\ BitSet(e.val, STATUS_BUSY_BIT)
IsBusyClear(e) == IsStatusRead(e) /\ ~BitSet(e.val, STATUS_BUSY_BIT)
IsDoneSet(e) == IsStatusRead(e) /\ BitSet(e.val, STATUS_DONE_BIT)
IsDoneClear(e) == IsStatusRead(e) /\ ~BitSet(e.val, STATUS_DONE_BIT)
IsAWrite(e) == e.k = "W" /\ InRegion(e.addr, MATRIX_A_BASE_ADDR)
IsBWrite(e) == e.k = "W" /\ InRegion(e.addr, MATRIX_B_BASE_ADDR)
IsCRead(e) == e.k = "R" /\ InRegion(e.addr, MATRIX_C_BASE_ADDR)

\* A load that passed its readiness test: one STATUS read with BUSY clear,
\* then the 16 elements of matrix, row-major, to the slots of base.
IsLoadSegment(l, from, base, matrix) ==
    /\ Len(l) >= from + MATRIX_ELEMENTS
    /\ IsBusyClear(l[from])
    /\ \A i \in Slots :
           l[from + 1 + i] =
               Access("W", base + 4 * i, At(matrix, i \div MATRIX_SIZE, i % MATRIX_SIZE))

\* The START pulse: the bit set, the delay, the register cleared.
StartPulse ==
    <<Access("W", CONTROL_REG_ADDR, CONTROL_START_BIT),
      Access("D", 0, 2),
      Access("W", CONTROL_REG_ADDR, 0)>>

\* A start that passed its readiness test: the STATUS read, then the pulse.
IsStartSegment(l, from) ==
    /\ Len(l) >= from + Len(StartPulse)
    /\ IsBusyClear(l[from])
    /\ \A i \in 1 .. Len(StartPulse) : l[from + i] = StartPulse[i]

\* A wait of w quanta: w STATUS reads with DONE clear, each followed by one
\* quantum, then the deciding STATUS read.
IsWaitSegment(l, from, w) ==
    /\ Len(l) >= from + 2 * w
    /\ \A i \in 0 .. w - 1 :
           /\ IsDoneClear(l[from + 2 * i])
           /\ l[from + 2 * i + 1] = Access("D", 0, 1)
    /\ IsStatusRead(l[from + 2 * w])

\* A read_result that passed its test: DONE seen, then C[0..15] in order.
IsReadSegment(l, from) ==
    /\ Len(l) >= from + MATRIX_ELEMENTS
    /\ IsDoneSet(l[from])
    /\ \A i \in Slots :
           /\ l[from + 1 + i].k = "R"
           /\ l[from + 1 + i].addr = MATRIX_C_BASE_ADDR + 4 * i

\* Lengths of the segments.
LoadLen == 1 + MATRIX_ELEMENTS
StartLen == 1 + Len(StartPulse)
WaitLen(w) == 2 * w + 1
ReadLen == 1 + MATRIX_ELEMENTS

\* multiply got through load_matrices and start: the log begins with the
\* two loads and the START pulse.
MulStarted(l) ==
    /\ IsLoadSegment(l, 1, MATRIX_A_BASE_ADDR, args.a)
    /\ IsLoadSegment(l, 1 + LoadLen, MATRIX_B_BASE_ADDR, args.b)
    /\ IsStartSegment(l, 1 + 2 * LoadLen)
    /\ IsWaitSegment(l, 1 + 2 * LoadLen + StartLen, waited)

\* C11: matrix_accel_multiply runs load_matrices, start, wait_done(timeout),
\* read_result in that order and returns the outcome of the first step that
\* is not Success, with no MMIO access of a later step: a Busy return is the
\* rejected STATUS read of the first load and nothing else, a Timeout return
\* is the loads, the START pulse and the polls with DONE clear on the last
\* one and no C read, and Success is returned only after all four steps:
\* both loads, the pulse, a poll that saw DONE, and the 16 C reads.
C11_MultiplyStepsShortCircuit ==
    Returned("multiply") =>
        /\ ret \in {MATRIX_ACCEL_SUCCESS, MATRIX_ACCEL_ERROR_BUSY,
                    MATRIX_ACCEL_ERROR_TIMEOUT}
        /\ ret = MATRIX_ACCEL_ERROR_BUSY =>
               /\ Len(log) = 1
               /\ IsBusySet(log[1])
        /\ ret = MATRIX_ACCEL_ERROR_TIMEOUT =>
               /\ MulStarted(log)
               /\ Len(log) = 2 * LoadLen + StartLen + WaitLen(waited)
               /\ IsDoneClear(log[Len(log)])
               /\ waited = args.timeout
               /\ Count(log, IsCRead) = 0
        /\ ret = MATRIX_ACCEL_SUCCESS =>
               /\ MulStarted(log)
               /\ Len(log) = 2 * LoadLen + StartLen + WaitLen(waited) + ReadLen
               /\ IsDoneSet(log[2 * LoadLen + StartLen + WaitLen(waited)])
               /\ IsReadSegment(log, 2 * LoadLen + StartLen + WaitLen(waited) + 1)
               /\ Count(log, IsStartWrite) = 1

\* C11 witness: multiply returned the Timeout of its third step after the
\* loads and the START pulse, and read no C slot.
C11_Witness ==
    /\ Returned("multiply")
    /\ ret = MATRIX_ACCEL_ERROR_TIMEOUT
    /\ Count(log, IsAWrite) = MATRIX_ELEMENTS
    /\ Count(log, IsBWrite) = MATRIX_ELEMENTS
    /\ Count(log, IsStartWrite) = 1
    /\ Count(log, IsCRead) = 0

\* C12: matrix_accel_load_matrices calls load_matrix_a, then load_matrix_b.
\* When load_matrix_a is rejected (BUSY set at its STATUS read) that Busy is
\* returned after this one STATUS read, with no write to a B slot and no
\* second STATUS read; otherwise the 16 writes of A are followed by the
\* STATUS read of load_matrix_b, whose outcome is the one returned: Busy
\* after that read alone, or Success after the 16 writes of B.
C12_LoadMatricesShortCircuit ==
    Returned("load_matrices") =>
        /\ Len(log) >= 1
        /\ IsStatusRead(log[1])
        /\ log[1].val = StatusWord(entry)
        /\ IF IsBusySet(log[1])
           THEN /\ ret = MATRIX_ACCEL_ERROR_BUSY
                /\ Len(log) = 1
                /\ Count(log, IsBWrite) = 0
                /\ Count(log, IsStatusRead) = 1
           ELSE /\ IsLoadSegment(log, 1, MATRIX_A_BASE_ADDR, args.a)
                /\ Len(log) >= 1 + LoadLen
                /\ IF IsBusySet(log[1 + LoadLen])
                   THEN /\ ret = MATRIX_ACCEL_ERROR_BUSY
                        /\ Len(log) = 1 + LoadLen
                   ELSE /\ ret = MATRIX_ACCEL_SUCCESS
                        /\ IsLoadSegment(log, 1 + LoadLen, MATRIX_B_BASE_ADDR, args.b)
                        /\ Len(log) = 2 * LoadLen

\* C12 witness: load_matrices returned the Busy of load_matrix_a from a
\* call made while the device was running.
C12_Witness ==
    /\ Returned("load_matrices")
    /\ entry.busy
    /\ ret = MATRIX_ACCEL_ERROR_BUSY
    /\ Len(log) = 1

\* C13: matrix_accel_init performs, in this order, CONTROL := RESET, the
\* settling delay, CONTROL := 0, the delay again, CONFIG := 0x00040404
\* (M = N = P = 4), then one CONFIG read, and nothing else; it returns
\* Success if and only if the value read back is 0x00040404, and
\* InvalidParam otherwise.
C13_InitSequenceAndVerify ==
    Returned("init") =>
        /\ Len(log) = 6
        /\ log[1] = Access("W", CONTROL_REG_ADDR, CONTROL_RESET_BIT)
        /\ IsDelay(log[2])
        /\ log[3] = Access("W", CONTROL_REG_ADDR, 0)
        /\ IsDelay(log[4])
        /\ log[5] = Access("W", CONFIG_REG_ADDR, 263172)
        /\ log[6].k = "R"
        /\ log[6].addr = CONFIG_REG_ADDR
        /\ ret = IF log[6].val = 263172
                 THEN MATRIX_ACCEL_SUCCESS
                 ELSE MATRIX_ACCEL_ERROR_INVALID_PARAM

\* C13 witness: init read back something else than it wrote and returned
\* InvalidParam.
C13_Witness ==
    /\ Returned("init")
    /\ log[6].val # log[5].val
    /\ ret = MATRIX_ACCEL_ERROR_INVALID_PARAM

\* C14: matrix_accel_start called while STATUS.BUSY = 0 reads STATUS, writes
\* CONTROL := START (bit 0 only), waits, then writes CONTROL := 0, in that
\* order and with no other MMIO write, and returns Success; on return the
\* CONTROL register holds 0 and RESET was never asserted.
C14_StartPulse ==
    (Returned("start") /\ ~entry.busy) =>
        /\ ret = MATRIX_ACCEL_SUCCESS
        /\ Len(log) = 4
        /\ IsBusyClear(log[1])
        /\ log[2] = Access("W", CONTROL_REG_ADDR, 1)
        /\ IsDelay(log[3])
        /\ log[3].val >= 2
        /\ log[4] = Access("W", CONTROL_REG_ADDR, 0)
        /\ Count(log, IsWrite) = 2
        /\ \A i \in 1 .. Len(log) :
               IsControlWrite(log[i]) => ~BitSet(log[i].val, CONTROL_RESET_BIT)
        /\ dev.control = 0

\* C14 witness: start returned from a call that found a finished device
\* (DONE = 1) and pulsed START.
C14_Witness ==
    /\ Returned("start")
    /\ ~entry.busy
    /\ entry.done
    /\ ret = MATRIX_ACCEL_SUCCESS
    /\ Count(log, IsStartWrite) = 1

\* The operations that can return Busy.
BusyOps ==
    {"load_matrix_a", "load_matrix_b", "load_matrices", "start", "read_result",
     "multiply"}

\* C15 as stated: whenever load_matrix_a, load_matrix_b, load_matrices,
\* start, read_result or multiply returns Busy, STATUS.BUSY was 1 at the
\* STATUS read that caused the rejection.
C15_BusyMeansRunning ==
    (pc = "ret" /\ op \in BusyOps /\ ret = MATRIX_ACCEL_ERROR_BUSY) =>
        /\ Len(log) >= 1
        /\ IsBusySet(log[Len(log)])

\* C15 amended: a Busy outcome is returned right after the STATUS read that
\* caused it.  From load_matrix_a, load_matrix_b, load_matrices, start and
\* multiply that read had BUSY = 1: the device was running.  From
\* read_result that read had DONE = 0, whatever BUSY was: an idle device
\* that has no result yet (BUSY = 0, DONE = 0) is rejected with Busy too.
C15_BusyMeansPreconditionBit ==
    (pc = "ret" /\ ret = MATRIX_ACCEL_ERROR_BUSY) =>
        /\ op \in BusyOps
        /\ Len(log) >= 1
        /\ IF op = "read_result"
           THEN /\ IsDoneClear(log[Len(log)])
                /\ log[Len(log)].val = StatusWord(entry)
           ELSE IsBusySet(log[Len(log)])

\* C15 witness: read_result returned Busy from an idle device, BUSY = 0 and
\* DONE = 0 at its STATUS read.
C15_Witness ==
    /\ Returned("read_result")
    /\ ret = MATRIX_ACCEL_ERROR_BUSY
    /\ IsBusyClear(log[1])
    /\ ~entry.busy

\* The status of the device as the state machine names it.
Running(d) == d.busy /\ ~d.done
StatusBits(d) == <<d.busy, d.done>>

\* The steps that carry the transitions: the START write of a start that
\* passed its readiness test, called by the caller or by multiply; a reset
\* (matrix_accel_reset, or the RESET that matrix_accel_init asserts); a load;
\* and the device finishing on its own.
StartStep == pc \in {"idle", "m_start"} /\ pc' = "s_settle"
ResetStep == pc = "idle" /\ op' \in {"reset", "init"}
LoadStep ==
    \/ pc = "idle" /\ op' \in {"load_matrix_a", "load_matrix_b", "load_matrices"}
    \/ pc = "m_load" /\ pc' # "m_load"
DeviceStep == dev' # dev /\ UNCHANGED <<log, pc, op, ret>>

\* C16: under any sequence of driver operations and device completions the
\* status is Idle (BUSY = 0), Running (BUSY = 1, DONE = 0) or Done (BUSY = 0,
\* DONE = 1), never BUSY = 1 with DONE = 1, and it changes only like this:
\* a load leaves it alone, a successful start moves BUSY = 0 to Running and
\* clears DONE, the device moves Running to Done, a reset moves any status
\* to BUSY = 0, DONE = 0.
C16_StatusTransitions ==
    /\ ~(dev.busy /\ dev.done)
    /\ [][/\ ~(dev'.busy /\ dev'.done)
          /\ LoadStep => StatusBits(dev') = StatusBits(dev)
          /\ StartStep => (~dev.busy /\ Running(dev'))
          /\ ResetStep => (~dev'.busy /\ ~dev'.done)
          /\ DeviceStep => (Running(dev) /\ ~dev'.busy /\ dev'.done)
          /\ StatusBits(dev') # StatusBits(dev) =>
                 \/ StartStep /\ ~dev.busy /\ Running(dev')
                 \/ DeviceStep /\ Running(dev) /\ ~dev'.busy /\ dev'.done
                 \/ ResetStep /\ ~dev'.busy /\ ~dev'.done]_vars

\* C16 witness: a multiply entered on a Done device has returned Success:
\* start moved Done to Running and the device moved Running to Done.
C16_Witness ==
    /\ Returned("multiply")
    /\ ~entry.busy
    /\ entry.done
    /\ completed
    /\ ret = MATRIX_ACCEL_SUCCESS
    /\ ~dev.busy
    /\ dev.done

\* C17: matrix_accel_get_status returns InvalidParam when either
\* out-parameter is null, and then reads no register and stores through
\* neither pointer; otherwise it reads STATUS exactly once, stores
\* (BUSY bit = 1) into *is_busy and (DONE bit = 1) into *is_done from that
\* one read, and returns Success.
C17_GetStatusContract ==
    Returned("get_status") =>
        IF args.is_busy = NULL \/ args.is_done = NULL
        THEN /\ ret = MATRIX_ACCEL_ERROR_INVALID_PARAM
             /\ Len(log) = 0
             /\ outs.is_busy = Fresh
             /\ outs.is_done = Fresh
             /\ dev = entry
        ELSE /\ ret = MATRIX_ACCEL_SUCCESS
             /\ Len(log) = 1
             /\ IsStatusRead(log[1])
             /\ log[1].val = StatusWord(entry)
             /\ outs.is_busy = (IF IsBusySet(log[1]) THEN 1 ELSE 0)
             /\ outs.is_done = (IF IsDoneSet(log[1]) THEN 1 ELSE 0)
             /\ dev = entry

\* C17 witness: get_status called with a bool for is_busy and null for
\* is_done returned InvalidParam.
C17_Witness ==
    /\ Returned("get_status")
    /\ args.is_busy = Ptr
    /\ args.is_done = NULL
    /\ ret = MATRIX_ACCEL_ERROR_INVALID_PARAM

\* The values of matrix_accel_result_t.
Outcomes ==
    {MATRIX_ACCEL_SUCCESS, MATRIX_ACCEL_ERROR_TIMEOUT, MATRIX_ACCEL_ERROR_BUSY,
     MATRIX_ACCEL_ERROR_INVALID_PARAM}

\* C18: matrix_accel_error_string returns a non-empty label for every
\* value: "Success" for Success, "Operation timeout" for Timeout,
\* "Accelerator busy" for Busy, "Invalid parameter" for InvalidParam and
\* "Unknown error" for every value outside the enumeration; the four labels
\* of the enumeration are pairwise distinct.
C18_ErrorStringLabels ==
    Returned("error_string") =>
        /\ outs.label # ""
        /\ args.error = MATRIX_ACCEL_SUCCESS => outs.label = "Success"
        /\ args.error = MATRIX_ACCEL_ERROR_TIMEOUT => outs.label = "Operation timeout"
        /\ args.error = MATRIX_ACCEL_ERROR_BUSY => outs.label = "Accelerator busy"
        /\ args.error = MATRIX_ACCEL_ERROR_INVALID_PARAM =>
               outs.label = "Invalid parameter"
        /\ args.error \notin Outcomes => outs.label = "Unknown error"
        /\ Cardinality({matrix_accel_error_string(e) : e \in Outcomes}) =
               Cardinality(Outcomes)
        /\ Len(log) = 0

\* C18 witness: a value below the enumeration was given the default label.
C18_Witness ==
    /\ Returned("error_string")
    /\ args.error < MATRIX_ACCEL_ERROR_INVALID_PARAM
    /\ outs.label = "Unknown error"

\* C19: matrix_accel_load_matrix_a called while BUSY = 0 writes exactly the
\* 16 slots A[0..15], in ascending index order, A[row * 4 + col] :=
\* matrix[row][col] as a 32-bit value, and leaves the B region, the C
\* region, CONTROL and CONFIG as they were; matrix_accel_load_matrix_b
\* likewise writes only B[0..15] and leaves A as it was.
C19_LoadFrame ==
    /\ (Returned("load_matrix_a") /\ ~entry.busy) =>
           /\ ret = MATRIX_ACCEL_SUCCESS
           /\ Len(log) = LoadLen
           /\ IsLoadSegment(log, 1, MATRIX_A_BASE_ADDR, args.a)
           /\ Count(log, IsAWrite) = MATRIX_ELEMENTS
           /\ Count(log, IsWrite) = MATRIX_ELEMENTS
           /\ \A row \in Rows, col \in Rows :
                  /\ dev.A[row * 4 + col + 1] = At(args.a, row, col)
                  /\ dev.A[row * 4 + col + 1] \in 0 .. 255
           /\ dev = [entry EXCEPT !.A = dev.A]
    /\ (Returned("load_matrix_b") /\ ~entry.busy) =>
           /\ ret = MATRIX_ACCEL_SUCCESS
           /\ Len(log) = LoadLen
           /\ IsLoadSegment(log, 1, MATRIX_B_BASE_ADDR, args.b)
           /\ Count(log, IsBWrite) = MATRIX_ELEMENTS
           /\ Count(log, IsWrite) = MATRIX_ELEMENTS
           /\ \A row \in Rows, col \in Rows :
                  /\ dev.B[row * 4 + col + 1] = At(args.b, row, col)
                  /\ dev.B[row * 4 + col + 1] \in 0 .. 255
           /\ dev = [entry EXCEPT !.B = dev.B]

\* C19 witness: load_matrix_b has staged the band matrix on a device whose
\* A region held a staged operand, and A is as it was.
C19_Witness ==
    /\ Returned("load_matrix_b")
    /\ ~entry.busy
    /\ args.b = BandB
    /\ entry.A # InvalidRegion
    /\ dev.A = entry.A
    /\ dev.B # entry.B

IsStagingWrite(e) == IsAWrite(e) \/ IsBWrite(e)

\* C20: at every point of an execution of matrix_accel_multiply, the START
\* write comes after all 32 staging writes, A[0..15] then B[0..15]; no
\* staging slot is written after it; and every read of a C slot comes after
\* a STATUS read that saw DONE = 1 and was itself issued after the START
\* write.
C20_MultiplyOrdering ==
    op = "multiply" =>
        /\ \A s \in 1 .. Len(log) :
               IsStartWrite(log[s]) =>
                   /\ s > 2 * LoadLen
                   /\ IsLoadSegment(log, 1, MATRIX_A_BASE_ADDR, args.a)
                   /\ IsLoadSegment(log, 1 + LoadLen, MATRIX_B_BASE_ADDR, args.b)
                   /\ Count(SubSeq(log, 1, s), IsStagingWrite) = 2 * MATRIX_ELEMENTS
                   /\ \A j \in s .. Len(log) : ~IsStagingWrite(log[j])
        /\ \A i \in 1 .. Len(log), j \in 1 .. Len(log) :
               (IsAWrite(log[i]) /\ IsBWrite(log[j])) => i < j
        /\ \A c \in 1 .. Len(log) :
               IsCRead(log[c]) =>
                   \E s \in 1 .. c, d \in 1 .. c :
                       /\ s < d
                       /\ d < c
                       /\ IsStartWrite(log[s])
                       /\ IsDoneSet(log[d])

\* C20 witness: a multiply has returned Success after 32 staging writes,
\* one START write and 16 C reads.
C20_Witness ==
    /\ Returned("multiply")
    /\ ret = MATRIX_ACCEL_SUCCESS
    /\ Count(log, IsStagingWrite) = 2 * MATRIX_ELEMENTS
    /\ Count(log, IsStartWrite) = 1
    /\ Count(log, IsCRead) = MATRIX_ELEMENTS

\* The operations that return after one straight run of code.
StraightOps ==
    {"load_matrix_a", "load_matrix_b", "start", "read_result", "reset", "get_status"}

\* Inside a call of multiply, before its return.
InMultiply ==
    /\ op = "multiply"
    /\ pc \in {"m_load", "m_start", "s_settle", "s_clear", "m_wait", "m_read"}

\* While a wait with a budget T > 0 runs, at most T quanta have been spent;
\* the straight operations return after at most one STATUS read and the
\* fixed accesses of one load or one read-out; a wait without budget goes
\* round again whenever DONE is clear, however long it has waited.
BoundedWaiting ==
    /\ (pc \in {"wait", "m_wait", "ret"} /\ op \in {"wait_done", "multiply"}
        /\ args.timeout > 0) =>
           /\ waited <= args.timeout
           /\ Count(log, IsDelay) <= args.timeout + 1
    /\ (pc = "ret" /\ op \in StraightOps) =>
           /\ Count(log, IsStatusRead) <= 1
           /\ Len(log) <= LoadLen
    /\ (pc \in {"wait", "m_wait"} /\ args.timeout = 0 /\ ~dev.done) =>
           wait_done_pass(Bus, args.timeout, waited).next = "loop"

\* C21: matrix_accel_wait_done with timeout T > 0 returns whatever the
\* device does, after at most T delay quanta, and so matrix_accel_multiply
\* with T > 0 always returns; load_matrix_a, load_matrix_b, start,
\* read_result, reset and get_status return without polling; only a wait
\* with T = 0 goes on for as long as the device keeps DONE clear.
C21_Termination ==
    /\ []BoundedWaiting
    /\ (pc = "wait" /\ args.timeout > 0) ~> Returned("wait_done")
    /\ (InMultiply /\ args.timeout > 0) ~> Returned("multiply")

\* C21 witness: wait_done with the largest budget has returned Timeout from
\* a device that never finished, after that many quanta.
C21_Witness ==
    /\ Returned("wait_done")
    /\ args.timeout = MaxTimeout
    /\ ret = MATRIX_ACCEL_ERROR_TIMEOUT
    /\ waited = MaxTimeout
    /\ ~completed
    /\ dev.busy

IsResetWrite(e) == IsControlWrite(e) /\ BitSet(e.val, CONTROL_RESET_BIT)

\* C22: one call of matrix_accel_multiply writes the START bit to CONTROL
\* at most once and never writes the RESET bit, at any point and whatever it
\* returns; when it returns Timeout it has pulsed START once, has not
\* touched CONTROL since clearing the pulse, and the computation it started
\* is still in flight.
C22_NoRetryNoReset ==
    op = "multiply" =>
        /\ Count(log, IsStartWrite) <= 1
        /\ Count(log, IsResetWrite) = 0
        /\ (pc = "ret" /\ ret = MATRIX_ACCEL_ERROR_TIMEOUT) =>
               /\ Count(log, IsStartWrite) = 1
               /\ Count(log, IsControlWrite) = 2
               /\ dev.busy
               /\ ~dev.done
        /\ (pc = "ret" /\ ret = MATRIX_ACCEL_ERROR_BUSY) =>
               Count(log, IsWrite) = 0

\* C22 witness: multiply has returned Timeout after the shortest budget,
\* with its one START pulse behind it and the device still running.
C22_Witness ==
    /\ Returned("multiply")
    /\ ret = MATRIX_ACCEL_ERROR_TIMEOUT
    /\ args.timeout = 1
    /\ Count(log, IsStartWrite) = 1
    /\ Count(log, IsResetWrite) = 0
    /\ dev.busy

\* The call in progress found the device in the Done state.
EnteredDone == ~entry.busy /\ entry.done

\* C23: when matrix_accel_multiply is called with the device in the Done
\* state (DONE = 1 latched by an earlier operation), the DONE that ends its
\* wait is never the latched one: after its START write DONE is set only by
\* a completion that happened during this call, on the operands this call
\* staged; and a Success return carries the product of the matrices passed
\* to this call, not the C values of the earlier operation.
C23_NoStaleDone ==
    (op = "multiply" /\ EnteredDone) =>
        /\ (Count(log, IsStartWrite) = 1 /\ dev.done) =>
               /\ completed
               /\ \A i \in Rows, j \in Rows :
                      dev.C[i * MATRIX_SIZE + j + 1] = Expected(args.a, args.b, i, j)
        /\ \A s \in 1 .. Len(log), d \in 1 .. Len(log) :
               (IsStartWrite(log[s]) /\ s < d /\ IsDoneSet(log[d])) => completed
        /\ (pc = "ret" /\ ret = MATRIX_ACCEL_SUCCESS) =>
               /\ completed
               /\ \A i \in Rows, j \in Rows :
                      At(result, i, j) = Expected(args.a, args.b, i, j)

\* C23 witness: multiply, called on a Done device that held another
\* product, has returned Success with a result that differs from it.
C23_Witness ==
    /\ Returned("multiply")
    /\ EnteredDone
    /\ ret = MATRIX_ACCEL_SUCCESS
    /\ entry.C # InvalidRegion
    /\ entry.C # dev.C
    /\ At(result, 0, 0) # entry.C[1]

\* C24: whenever matrix_accel_multiply or matrix_accel_read_result returns
\* an outcome other than Success (Busy or Timeout), the caller's output
\* matrix is as it was before the call and no C slot was read; at every
\* point, an element of the output matrix has been written only after the
\* STATUS read of read_result saw DONE = 1.
C24_FailureLeavesResult ==
    /\ (pc = "ret" /\ op \in {"multiply", "read_result"}
        /\ ret # MATRIX_ACCEL_SUCCESS) =>
           /\ ret \in {MATRIX_ACCEL_ERROR_BUSY, MATRIX_ACCEL_ERROR_TIMEOUT}
           /\ result = FreshMat
           /\ Count(log, IsCRead) = 0
    /\ result # FreshMat =>
           /\ op \in {"multiply", "read_result"}
           /\ Len(log) >= ReadLen
           /\ IsReadSegment(log, Len(log) - MATRIX_ELEMENTS)
    /\ Count(log, IsCRead) > 0 =>
           /\ Len(log) >= ReadLen
           /\ IsReadSegment(log, Len(log) - MATRIX_ELEMENTS)

\* C24 witness: multiply has returned Timeout on a device whose C region
\* held an earlier product, and the output matrix is untouched.
C24_Witness ==
    /\ Returned("multiply")
    /\ ret = MATRIX_ACCEL_ERROR_TIMEOUT
    /\ entry.C # InvalidRegion
    /\ result = FreshMat

\* C25: with the device to itself, once the wait inside matrix_accel_multiply
\* has returned Success, DONE stays latched and the read_result that follows
\* does not return Busy; so multiply returns only Success, Timeout, or the
\* Busy of its load or start step (a rejected STATUS read with BUSY = 1
\* before any wait), and never InvalidParam.
C25_MultiplyOutcomes ==
    op = "multiply" =>
        /\ pc = "m_read" =>
               /\ dev.done
               /\ ~dev.busy
               /\ IsDoneSet(log[Len(log)])
               /\ matrix_accel_read_result(Bus, result).ret = MATRIX_ACCEL_SUCCESS
        /\ pc = "ret" =>
               /\ ret \in {MATRIX_ACCEL_SUCCESS, MATRIX_ACCEL_ERROR_BUSY,
                           MATRIX_ACCEL_ERROR_TIMEOUT}
               /\ ret # MATRIX_ACCEL_ERROR_INVALID_PARAM
               /\ ret = MATRIX_ACCEL_ERROR_BUSY =>
                      /\ Len(log) \in {1, 1 + LoadLen, 1 + 2 * LoadLen}
                      /\ IsBusySet(log[Len(log)])
                      /\ Count(log, IsDelay) = 0
                      /\ waited = 0

\* C25 witness: inside multiply the wait has returned Success after at
\* least one quantum, and read_result is about to run on the latched DONE.
C25_Witness ==
    /\ op = "multiply"
    /\ pc = "m_read"
    /\ waited > 0
    /\ dev.done
    /\ completed

\* C26: with the device to itself, matrix_accel_load_matrices is all or
\* nothing: BUSY does not rise between the readiness test of load_matrix_a
\* and that of load_matrix_b, so it never returns Busy after writing the A
\* region; either all 32 slots are written and Success is returned, or no
\* slot is written and Busy is returned.  The load step of multiply behaves
\* the same.
C26_LoadMatricesAllOrNothing ==
    /\ Returned("load_matrices") =>
           \/ /\ ret = MATRIX_ACCEL_SUCCESS
              /\ ~entry.busy
              /\ Count(log, IsAWrite) = MATRIX_ELEMENTS
              /\ Count(log, IsBWrite) = MATRIX_ELEMENTS
              /\ IsBusyClear(log[1])
              /\ IsBusyClear(log[1 + LoadLen])
           \/ /\ ret = MATRIX_ACCEL_ERROR_BUSY
              /\ entry.busy
              /\ Count(log, IsWrite) = 0
              /\ dev = entry
    /\ (op = "multiply" /\ pc \in {"m_start", "ret"}) =>
           \/ Count(log, IsStagingWrite) = 2 * MATRIX_ELEMENTS
           \/ ret = MATRIX_ACCEL_ERROR_BUSY /\ Count(log, IsWrite) = 0

\* C26 witness: load_matrices has written all 32 slots on a device that was
\* in the Done state and returned Success.
C26_Witness ==
    /\ Returned("load_matrices")
    /\ ~entry.busy
    /\ entry.done
    /\ ret = MATRIX_ACCEL_SUCCESS
    /\ Count(log, IsStagingWrite) = 2 * MATRIX_ELEMENTS

=============================================================================
